---- MODULE Spec2Model ----
(***************************************************************************)
(* Model of sheets_mcp/server.py: the tool registry (list_tools), the      *)
(* dispatcher (call_tool) and the nine tool handlers, run against a        *)
(* Gateway (the gspread client) whose every call either returns or raises  *)
(* SpreadsheetNotFound, WorksheetNotFound or some other exception.         *)
(*                                                                         *)
(* Text is a sequence of tokens.  A token is a piece of text that holds no *)
(* "/" unless it is the token "/" itself, so that Python's substring test  *)
(* and str.split on "/d/" and "/" are computed exactly on token sequences. *)
(***************************************************************************)
EXTENDS Integers, Sequences, FiniteSets, TLC

VARIABLES pc, name, arguments, handler, calls, result, log, toolList

vars == <<pc, name, arguments, handler, calls, result, log, toolList>>

(* ---------------------------------------------------------------- bounds *)

\* The longest identifier, counted in pieces of IdentifierPieces.
MaxPieces == 3

(* ---------------------------------------------------------------- values *)

\* Python values that occur as argument values.
StrV(s) == [t |-> "str", s |-> s, n |-> 0]
IntV(k) == [t |-> "int", s |-> <<>>, n |-> k]
NoneV == [t |-> "none", s |-> <<>>, n |-> 0]
ListV(tag) == [t |-> "list", s |-> <<tag>>, n |-> 0]
\* The mark of a key that the argument mapping does not hold.
Absent == [t |-> "absent", s |-> <<>>, n |-> 0]

\* bool(v): the truth value Python gives a value in "if v:".
Truthy(v) ==
    CASE v.t = "str" -> v.s # <<>>
      [] v.t = "int" -> v.n # 0
      [] v.t = "list" -> TRUE
      [] OTHER -> FALSE

\* str(v), as an f-string interpolates it.
PyStr(v) ==
    CASE v.t = "str" -> v.s
      [] v.t = "int" -> <<ToString(v.n)>>
      [] v.t = "list" -> <<"[">> \o v.s \o <<"]">>
      [] OTHER -> <<"None">>

\* x in s, for two pieces of text: x is a contiguous part of s.
Contains(s, x) ==
    \E k \in 0..(Len(s) - Len(x)) : SubSeq(s, k + 1, k + Len(x)) = x

\* The first position at which sep occurs in s, 0 when it does not.
Find(s, sep) ==
    IF Contains(s, sep)
    THEN CHOOSE k \in 1..Len(s) :
            /\ k + Len(sep) - 1 <= Len(s)
            /\ SubSeq(s, k, k + Len(sep) - 1) = sep
            /\ \A j \in 1..(k - 1) : SubSeq(s, j, j + Len(sep) - 1) # sep
    ELSE 0

\* s.split(sep): the parts of s between the occurrences of sep, left to right.
RECURSIVE Split(_, _)
Split(s, sep) ==
    LET k == Find(s, sep) IN
    IF k = 0 THEN <<s>>
    ELSE <<SubSeq(s, 1, k - 1)>> \o Split(SubSeq(s, k + Len(sep), Len(s)), sep)

\* The URL marker tested by handle_open_spreadsheet.
UrlMarker ==
    <<"https:", "/", "/", "docs.google.com", "/", "spreadsheets", "/", "d", "/">>

\* The separator handle_open_spreadsheet splits on.
IdSeparator == <<"/", "d", "/">>

\* identifier.split("/d/")[1].split("/")[0]
ExtractSheetId(identifier) == Split(Split(identifier, IdSeparator)[2], <<"/">>)[1]

(* ------------------------------------------------------------- registry *)

\* list_tools with the descriptor of update_range left under the name of
\* the descriptor it was copied from.
ToolsCopiedName ==
    << [name |-> "list_spreadsheets", properties |-> {}, required |-> <<>>],
       [name |-> "open_spreadsheet", properties |-> {"identifier"},
        required |-> <<"identifier">>],
       [name |-> "list_worksheets", properties |-> {"spreadsheet_id"},
        required |-> <<"spreadsheet_id">>],
       [name |-> "read_worksheet",
        properties |-> {"spreadsheet_id", "worksheet_name", "range"},
        required |-> <<"spreadsheet_id", "worksheet_name">>],
       [name |-> "update_cell",
        properties |-> {"spreadsheet_id", "worksheet_name", "cell", "value"},
        required |-> <<"spreadsheet_id", "worksheet_name", "cell", "value">>],
       [name |-> "update_cell",
        properties |-> {"spreadsheet_id", "worksheet_name", "range", "values"},
        required |-> <<"spreadsheet_id", "worksheet_name", "range", "values">>],
       [name |-> "append_row",
        properties |-> {"spreadsheet_id", "worksheet_name", "values"},
        required |-> <<"spreadsheet_id", "worksheet_name", "values">>],
       [name |-> "create_spreadsheet", properties |-> {"title"},
        required |-> <<"title">>],
       [name |-> "create_worksheet",
        properties |-> {"spreadsheet_id", "title", "rows", "cols"},
        required |-> <<"spreadsheet_id", "title">>] >>

\* The descriptors list_tools returns, in its order: each tool's name, the
\* keys of its inputSchema "properties" and its inputSchema "required" list.
Tools ==
    << [name |-> "list_spreadsheets", properties |-> {}, required |-> <<>>],
       [name |-> "open_spreadsheet", properties |-> {"identifier"},
        required |-> <<"identifier">>],
       [name |-> "list_worksheets", properties |-> {"spreadsheet_id"},
        required |-> <<"spreadsheet_id">>],
       [name |-> "read_worksheet",
        properties |-> {"spreadsheet_id", "worksheet_name", "range"},
        required |-> <<"spreadsheet_id", "worksheet_name">>],
       [name |-> "update_cell",
        properties |-> {"spreadsheet_id", "worksheet_name", "cell", "value"},
        required |-> <<"spreadsheet_id", "worksheet_name", "cell", "value">>],
       [name |-> "update_range",
        properties |-> {"spreadsheet_id", "worksheet_name", "range", "values"},
        required |-> <<"spreadsheet_id", "worksheet_name", "range", "values">>],
       [name |-> "append_row",
        properties |-> {"spreadsheet_id", "worksheet_name", "values"},
        required |-> <<"spreadsheet_id", "worksheet_name", "values">>],
       [name |-> "create_spreadsheet", properties |-> {"title"},
        required |-> <<"title">>],
       [name |-> "create_worksheet",
        properties |-> {"spreadsheet_id", "title", "rows", "cols"},
        required |-> <<"spreadsheet_id", "title">>] >>

Range(seq) == {seq[k] : k \in DOMAIN seq}

ToolNames == {Tools[k].name : k \in DOMAIN Tools}

\* The descriptors of list_tools that carry the name n.
Descriptors(n) == {k \in DOMAIN Tools : Tools[k].name = n}

\* call_tool with a default handler in place of its else branch.
RouteWithDefault(n) ==
    CASE n = "open_spreadsheet" -> "handle_open_spreadsheet"
      [] n = "list_worksheets" -> "handle_list_worksheets"
      [] n = "read_worksheet" -> "handle_read_worksheet"
      [] n = "update_cell" -> "handle_update_cell"
      [] n = "update_range" -> "handle_update_range"
      [] n = "append_row" -> "handle_append_row"
      [] n = "create_spreadsheet" -> "handle_create_spreadsheet"
      [] n = "create_worksheet" -> "handle_create_worksheet"
      [] OTHER -> "handle_list_spreadsheets"

\* The if/elif chain of call_tool: the handler a tool name is routed to,
\* "none" for the else branch.
Route(n) ==
    CASE n = "list_spreadsheets" -> "handle_list_spreadsheets"
      [] n = "open_spreadsheet" -> "handle_open_spreadsheet"
      [] n = "list_worksheets" -> "handle_list_worksheets"
      [] n = "read_worksheet" -> "handle_read_worksheet"
      [] n = "update_cell" -> "handle_update_cell"
      [] n = "update_range" -> "handle_update_range"
      [] n = "append_row" -> "handle_append_row"
      [] n = "create_spreadsheet" -> "handle_create_spreadsheet"
      [] n = "create_worksheet" -> "handle_create_worksheet"
      [] OTHER -> "none"

(* ---------------------------------------------------------------- inputs *)

Fields ==
    {"identifier", "spreadsheet_id", "worksheet_name", "range", "cell",
     "value", "values", "title", "rows", "cols"}

\* The pieces identifiers are built from.
IdentifierPieces ==
    {UrlMarker, IdSeparator, <<"ABC123">>, <<"/", "edit">>, <<"My Budget">>}

\* The texts made of 1..n pieces.
RECURSIVE Concats(_)
Concats(n) ==
    IF n = 0 THEN {<<>>}
    ELSE LET shorter == Concats(n - 1) IN
         shorter \cup {p \o s : p \in IdentifierPieces, s \in shorter}

Identifiers == Concats(MaxPieces) \ {<<>>}

\* The values a caller supplies for each argument key.
Dom(f) ==
    CASE f = "identifier" -> {StrV(s) : s \in Identifiers} \cup {IntV(7)}
      [] f = "spreadsheet_id" -> {StrV(<<"S1">>), StrV(<<"S2">>)}
      [] f = "worksheet_name" -> {StrV(<<"Sheet1">>)}
      [] f = "range" -> {StrV(<<"A1:B2">>), StrV(<<>>), NoneV}
      [] f = "cell" -> {StrV(<<"A1">>)}
      [] f = "value" -> {StrV(<<"v">>), IntV(0)}
      [] f = "values" -> {ListV("a, 2, True, None")}
      [] f = "title" -> {StrV(<<"T">>)}
      [] f = "rows" -> {IntV(0), IntV(5), NoneV}
      [] f = "cols" -> {IntV(0), IntV(3)}

\* The argument mappings whose keys are among P.
RECURSIVE Mappings(_)
Mappings(P) ==
    IF P = {} THEN {[f \in Fields |-> Absent]}
    ELSE LET k == CHOOSE k \in P : TRUE IN
         {[m EXCEPT ![k] = v] : m \in Mappings(P \ {k}), v \in Dom(k) \cup {Absent}}

\* The raw arguments of a call: a dict, or a value that is no dict.
NotDict == {[kind |-> k, map |-> [f \in Fields |-> Absent]] : k \in {"none", "list", "str"}}

PropertiesOf(n) ==
    IF n \in ToolNames THEN Tools[CHOOSE k \in Descriptors(n) : TRUE].properties
    ELSE {"spreadsheet_id"}

ArgSpace(n) == NotDict \cup {[kind |-> "dict", map |-> m] : m \in Mappings(PropertiesOf(n))}

\* Names a caller may send that no tool carries.
UnknownNames == {"delete_spreadsheet", "read_worksheets", ""}

\* isinstance(arguments, dict)
IsDict(a) == a.kind = "dict"
\* k in arguments
Has(a, k) == a.map[k] # Absent
\* arguments.get(k, default)
Get(a, k, default) == IF Has(a, k) THEN a.map[k] ELSE default
\* The check with "and" written for "or": only a dict is ever rejected.
InvalidOnlyDicts(a, keys) == IsDict(a) /\ ~(\A k \in Range(keys) : Has(a, k))
\* not isinstance(arguments, dict) or not all(k in arguments for k in keys)
Invalid(a, keys) == ~IsDict(a) \/ ~(\A k \in Range(keys) : Has(a, k))

(* --------------------------------------------------------------- gateway *)

\* Messages of the exceptions a Gateway call raises.
ErrMsgs == {<<"quota exceeded">>, <<"X">>}

\* What a Gateway call does: it returns, or it raises an exception.
Outcomes ==
    {[type |-> "ok", msg |-> <<>>]} \cup
    {[type |-> t, msg |-> m] :
        t \in {"SpreadsheetNotFound", "WorksheetNotFound", "Exception"}, m \in ErrMsgs}

(* --------------------------------------------------------------- results *)

NoResult == [kind |-> "none", exc |-> "", text |-> <<>>]
Envelope(text) == [kind |-> "envelope", exc |-> "", text |-> text]
Raised(exc, text) == [kind |-> "raised", exc |-> exc, text |-> text]

\* json.dumps(..., indent=2, ensure_ascii=False) of the named payload.
Json(payload) == <<"json.dumps(", payload, ")">>

\* return [TextContent(type="text", text=...)], with nothing logged.
Returns(text) == [result |-> Envelope(text), log |-> <<>>]

\* The except clause that raises without the original message.
OpaqueNoDetail(prefix, e) ==
    [result |-> Raised("RuntimeError", <<prefix>>),
     log |-> << <<prefix>> \o e.msg >>]

\* except Exception as e: logger.error(f"{prefix}{str(e)}");
\* raise RuntimeError(f"{prefix}{str(e)}")
Opaque(prefix, e) ==
    [result |-> Raised("RuntimeError", <<prefix>> \o e.msg),
     log |-> << <<prefix>> \o e.msg >>]

\* f"Spreadsheet with ID '{spreadsheet_id}' not found."
SpreadsheetIdNotFound(spreadsheet_id) ==
    Returns(<<"Spreadsheet with ID '">> \o PyStr(spreadsheet_id) \o <<"' ", "not found", ".">>)

\* The worksheet sentence with the spreadsheet's wording, the name left out.
WorksheetNameNotFoundUnnamed(worksheet_name) ==
    Returns(<<"Worksheet '">> \o <<"' ", "not found", " in spreadsheet.">>)

\* f"Worksheet '{worksheet_name}' not found in spreadsheet."
WorksheetNameNotFound(worksheet_name) ==
    Returns(<<"Worksheet '">> \o PyStr(worksheet_name)
            \o <<"' ", "not found", " in spreadsheet.">>)

(* ------------------------------------------------------ except clauses *)

\* RequiredKeys with "value" forgotten in handle_update_cell's list.
RequiredKeysNoValue(h) ==
    CASE h = "handle_open_spreadsheet" -> <<"identifier">>
      [] h = "handle_list_worksheets" -> <<"spreadsheet_id">>
      [] h = "handle_read_worksheet" -> <<"spreadsheet_id", "worksheet_name">>
      [] h = "handle_update_cell" -> <<"spreadsheet_id", "worksheet_name", "cell">>
      [] h = "handle_update_range" -> <<"spreadsheet_id", "worksheet_name", "range", "values">>
      [] h = "handle_append_row" -> <<"spreadsheet_id", "worksheet_name", "values">>
      [] h = "handle_create_spreadsheet" -> <<"title">>
      [] h = "handle_create_worksheet" -> <<"spreadsheet_id", "title">>
      [] OTHER -> <<>>

\* The keys each handler requires of its arguments before its try block;
\* handle_list_spreadsheets never looks at its arguments.
RequiredKeys(h) ==
    CASE h = "handle_open_spreadsheet" -> <<"identifier">>
      [] h = "handle_list_worksheets" -> <<"spreadsheet_id">>
      [] h = "handle_read_worksheet" -> <<"spreadsheet_id", "worksheet_name">>
      [] h = "handle_update_cell" -> <<"spreadsheet_id", "worksheet_name", "cell", "value">>
      [] h = "handle_update_range" -> <<"spreadsheet_id", "worksheet_name", "range", "values">>
      [] h = "handle_append_row" -> <<"spreadsheet_id", "worksheet_name", "values">>
      [] h = "handle_create_spreadsheet" -> <<"title">>
      [] h = "handle_create_worksheet" -> <<"spreadsheet_id", "title">>
      [] OTHER -> <<>>

\* What each handler does with an exception e raised inside its try block.
list_spreadsheets_except(a, e) == Opaque("Error listing spreadsheets: ", e)

open_spreadsheet_except(a, e) ==
    IF e.type = "SpreadsheetNotFound"
    THEN Returns(<<"Spreadsheet '">> \o PyStr(a.map["identifier"])
                 \o <<"' ", "not found", ".">>)
    ELSE Opaque("Error opening spreadsheet: ", e)

\* handle_list_worksheets without its SpreadsheetNotFound clause.
list_worksheets_except_opaque(a, e) == Opaque("Error listing worksheets: ", e)

list_worksheets_except(a, e) ==
    IF e.type = "SpreadsheetNotFound"
    THEN SpreadsheetIdNotFound(a.map["spreadsheet_id"])
    ELSE Opaque("Error listing worksheets: ", e)

read_worksheet_except(a, e) ==
    IF e.type = "SpreadsheetNotFound" THEN SpreadsheetIdNotFound(a.map["spreadsheet_id"])
    ELSE IF e.type = "WorksheetNotFound" THEN WorksheetNameNotFound(a.map["worksheet_name"])
    ELSE Opaque("Error reading worksheet: ", e)

update_cell_except(a, e) ==
    IF e.type = "SpreadsheetNotFound" THEN SpreadsheetIdNotFound(a.map["spreadsheet_id"])
    ELSE IF e.type = "WorksheetNotFound" THEN WorksheetNameNotFound(a.map["worksheet_name"])
    ELSE Opaque("Error updating cell: ", e)

update_range_except(a, e) ==
    IF e.type = "SpreadsheetNotFound" THEN SpreadsheetIdNotFound(a.map["spreadsheet_id"])
    ELSE IF e.type = "WorksheetNotFound" THEN WorksheetNameNotFound(a.map["worksheet_name"])
    ELSE Opaque("Error updating range: ", e)

append_row_except(a, e) ==
    IF e.type = "SpreadsheetNotFound" THEN SpreadsheetIdNotFound(a.map["spreadsheet_id"])
    ELSE IF e.type = "WorksheetNotFound" THEN WorksheetNameNotFound(a.map["worksheet_name"])
    ELSE Opaque("Error appending row: ", e)

create_spreadsheet_except(a, e) == Opaque("Error creating spreadsheet: ", e)

create_worksheet_except(a, e) ==
    IF e.type = "SpreadsheetNotFound"
    THEN SpreadsheetIdNotFound(a.map["spreadsheet_id"])
    ELSE Opaque("Error creating worksheet: ", e)

\* The default number of rows and of columns of handle_create_worksheet.
DefaultRows == 100
DefaultCols == 26

\* The read chosen by the presence of the key, not by the value's truth.
ReadOpByPresence(a) == IF Has(a, "range") THEN "get" ELSE "get_all_values"

\* cell_range = arguments.get("range", None); "if cell_range:" chooses the read.
ReadOp(a) == IF Truthy(Get(a, "range", NoneV)) THEN "get" ELSE "get_all_values"

\* rows = arguments.get("rows") or 100: the default also replaces a falsy rows.
RowsOrDefault(a) ==
    IF Truthy(Get(a, "rows", NoneV)) THEN a.map["rows"] ELSE IntV(DefaultRows)

\* rows = arguments.get("rows", 100)
RowsOf(a) == Get(a, "rows", IntV(DefaultRows))
\* cols = arguments.get("cols", 26)
ColsOf(a) == Get(a, "cols", IntV(DefaultCols))

\* The check of "in" on the identifier: a str is searched, any other value
\* of the model's inputs makes the operator raise TypeError inside the try.
IsUrl(identifier) == Contains(identifier.s, UrlMarker)

(* ----------------------------------------------------------------- state *)

\* The invocations the transport has in hand.
Invocations == {1}

Fresh(v) == [i \in Invocations |-> v]

Init ==
    /\ pc = Fresh("idle")
    /\ name = Fresh("")
    /\ arguments = Fresh([kind |-> "none", map |-> [f \in Fields |-> Absent]])
    /\ handler = Fresh("none")
    /\ calls = Fresh(<<>>)
    /\ result = Fresh(NoResult)
    /\ log = Fresh(<<>>)
    /\ toolList = <<>>

\* The record of one Gateway call: the operation, its arguments, what it did.
Call(i, op, args, out) == Append(calls[i], [op |-> op, args |-> args, out |-> out])

\* The handler goes on to its next Gateway call.
Continue(i, c, p) ==
    /\ pc' = [pc EXCEPT ![i] = p]
    /\ calls' = [calls EXCEPT ![i] = c]
    /\ UNCHANGED <<name, arguments, handler, result, log, toolList>>

\* The invocation ends: an envelope is returned or an error is raised.
Finish(i, c, r) ==
    /\ pc' = [pc EXCEPT ![i] = IF r.result.kind = "raised" THEN "raised" ELSE "returned"]
    /\ calls' = [calls EXCEPT ![i] = c]
    /\ result' = [result EXCEPT ![i] = r.result]
    /\ log' = [log EXCEPT ![i] = log[i] \o r.log]
    /\ UNCHANGED <<name, arguments, handler, toolList>>

\* raise ValueError(text), outside any try block: nothing is logged.
ValueError(text) == [result |-> Raised("ValueError", <<text>>), log |-> <<>>]

(* --------------------------------------------------------------- actions *)

\* The transport asks for the tool list.
list_tools ==
    /\ toolList' = Tools
    /\ UNCHANGED <<pc, name, arguments, handler, calls, result, log>>

\* The transport hands a tool call to call_tool.
Receive(i) ==
    /\ pc[i] = "idle"
    /\ \E n \in ToolNames \cup UnknownNames : \E a \in ArgSpace(n) :
        /\ name' = [name EXCEPT ![i] = n]
        /\ arguments' = [arguments EXCEPT ![i] = a]
    /\ pc' = [pc EXCEPT ![i] = "called"]
    /\ UNCHANGED <<handler, calls, result, log, toolList>>

\* call_tool: route the name to its handler or raise ValueError.
call_tool(i) ==
    /\ pc[i] = "called"
    /\ IF Route(name[i]) = "none"
       THEN Finish(i, calls[i], [result |-> Raised("ValueError", <<"Unknown tool: ", name[i]>>),
                                 log |-> <<>>])
       ELSE /\ handler' = [handler EXCEPT ![i] = Route(name[i])]
            /\ pc' = [pc EXCEPT ![i] = "entry"]
            /\ UNCHANGED <<name, arguments, calls, result, log, toolList>>

\* Where a handler goes when a Gateway call returns: on to another call, or
\* to the return of an envelope with the given text.
Then(label) == [pc |-> label, text |-> <<>>]
Done(text) == [pc |-> "", text |-> text]

\* A Gateway call that is made a second time when its first attempt raised.
GatewayStepRetry(i, op, args, next, excs) ==
    \E out \in Outcomes :
        LET c == Call(i, op, args, out) IN
        IF out.type = "ok"
        THEN IF next.pc # "" THEN Continue(i, c, next.pc)
             ELSE Finish(i, c, Returns(next.text))
        ELSE IF \A k \in DOMAIN calls[i] : calls[i][k].out.type = "ok"
        THEN Continue(i, c, pc[i])
        ELSE Finish(i, c, excs[out])

\* One Gateway call inside a try block: the call is made once; when it
\* returns the handler goes on, when it raises the except clauses decide.
GatewayStep(i, op, args, next, excs) ==
    \E out \in Outcomes :
        LET c == Call(i, op, args, out) IN
        IF out.type = "ok"
        THEN IF next.pc # "" THEN Continue(i, c, next.pc)
             ELSE Finish(i, c, Returns(next.text))
        ELSE Finish(i, c, excs[out])

\* An argument check that skips the resolution of a spreadsheet another
\* invocation has already resolved, and goes on with that invocation's handle.
ValidateSharedHandle(i, tool, first) ==
    IF Invalid(arguments[i], RequiredKeys(handler[i]))
    THEN Finish(i, calls[i], ValueError("Invalid arguments for " \o tool))
    ELSE IF /\ first = "open_by_key"
            /\ \E j \in DOMAIN pc \ {i} : \E k \in DOMAIN calls[j] :
                  /\ calls[j][k].op = "open_by_key"
                  /\ calls[j][k].out.type = "ok"
                  /\ calls[j][k].args = <<arguments[i].map["spreadsheet_id"]>>
    THEN Continue(i, calls[i],
                  CASE tool = "list_worksheets" -> "worksheets"
                    [] tool = "create_worksheet" -> "add_worksheet"
                    [] OTHER -> "worksheet")
    ELSE Continue(i, calls[i], first)

\* The argument check that opens eight of the handlers.
Validate(i, tool, first) ==
    IF Invalid(arguments[i], RequiredKeys(handler[i]))
    THEN Finish(i, calls[i], ValueError("Invalid arguments for " \o tool))
    ELSE Continue(i, calls[i], first)

handle_list_spreadsheets(i) ==
    /\ handler[i] = "handle_list_spreadsheets"
    /\ LET a == arguments[i]
           excs == [e \in Outcomes |-> list_spreadsheets_except(a, e)]
       IN
       \/ /\ pc[i] = "entry"
          /\ Continue(i, calls[i], "list_spreadsheet_files")
       \/ /\ pc[i] = "list_spreadsheet_files"
          /\ GatewayStep(i, "list_spreadsheet_files", <<>>, Done(Json("spreadsheets")), excs)

handle_open_spreadsheet(i) ==
    /\ handler[i] = "handle_open_spreadsheet"
    /\ LET a == arguments[i]
           identifier == a.map["identifier"]
           excs == [e \in Outcomes |-> open_spreadsheet_except(a, e)]
           TypeError == [type |-> "TypeError",
                         msg |-> <<"argument of type 'int' is not iterable">>]
       IN
       \/ /\ pc[i] = "entry"
          /\ IF Invalid(a, RequiredKeys(handler[i]))
             THEN Finish(i, calls[i], ValueError("Invalid arguments for open_spreadsheet"))
             ELSE IF identifier.t # "str"
             THEN Finish(i, calls[i], open_spreadsheet_except(a, TypeError))
             ELSE IF IsUrl(identifier)
             THEN Continue(i, calls[i], "open_by_key")
             ELSE Continue(i, calls[i], "open")
       \/ /\ pc[i] = "open_by_key"
          /\ GatewayStep(i, "open_by_key", <<StrV(ExtractSheetId(identifier.s))>>,
                         Then("worksheets"), excs)
       \/ /\ pc[i] = "open"
          /\ GatewayStep(i, "open", <<identifier>>, Then("worksheets"), excs)
       \/ /\ pc[i] = "worksheets"
          /\ GatewayStep(i, "worksheets", <<>>, Done(Json("spreadsheet_info")), excs)

handle_list_worksheets(i) ==
    /\ handler[i] = "handle_list_worksheets"
    /\ LET a == arguments[i]
           excs == [e \in Outcomes |-> list_worksheets_except(a, e)]
       IN
       \/ /\ pc[i] = "entry"
          /\ Validate(i, "list_worksheets", "open_by_key")
       \/ /\ pc[i] = "open_by_key"
          /\ GatewayStep(i, "open_by_key", <<a.map["spreadsheet_id"]>>, Then("worksheets"), excs)
       \/ /\ pc[i] = "worksheets"
          /\ GatewayStep(i, "worksheets", <<>>, Done(Json("worksheets")), excs)

handle_read_worksheet(i) ==
    /\ handler[i] = "handle_read_worksheet"
    /\ LET a == arguments[i]
           excs == [e \in Outcomes |-> read_worksheet_except(a, e)]
       IN
       \/ /\ pc[i] = "entry"
          /\ Validate(i, "read_worksheet", "open_by_key")
       \/ /\ pc[i] = "open_by_key"
          /\ GatewayStep(i, "open_by_key", <<a.map["spreadsheet_id"]>>, Then("worksheet"), excs)
       \/ /\ pc[i] = "worksheet"
          /\ GatewayStep(i, "worksheet", <<a.map["worksheet_name"]>>, Then(ReadOp(a)), excs)
       \/ /\ pc[i] = "get"
          /\ GatewayStep(i, "get", <<Get(a, "range", NoneV)>>, Done(Json("values")), excs)
       \/ /\ pc[i] = "get_all_values"
          /\ GatewayStep(i, "get_all_values", <<>>, Done(Json("values")), excs)

handle_update_cell(i) ==
    /\ handler[i] = "handle_update_cell"
    /\ LET a == arguments[i]
           excs == [e \in Outcomes |-> update_cell_except(a, e)]
       IN
       \/ /\ pc[i] = "entry"
          /\ Validate(i, "update_cell", "open_by_key")
       \/ /\ pc[i] = "open_by_key"
          /\ GatewayStep(i, "open_by_key", <<a.map["spreadsheet_id"]>>, Then("worksheet"), excs)
       \/ /\ pc[i] = "worksheet"
          /\ GatewayStep(i, "worksheet", <<a.map["worksheet_name"]>>, Then("update"), excs)
       \/ /\ pc[i] = "update"
          /\ GatewayStep(i, "update", <<a.map["cell"], a.map["value"]>>,
                         Done(<<"Successfully updated cell ">> \o PyStr(a.map["cell"])
                              \o <<" in worksheet '">> \o PyStr(a.map["worksheet_name"])
                              \o <<"' to value: ">> \o PyStr(a.map["value"])),
                         excs)

\* handle_update_range writing before it resolves the named worksheet.
handle_update_range_write_first(i) ==
    /\ handler[i] = "handle_update_range"
    /\ LET a == arguments[i]
           excs == [e \in Outcomes |-> update_range_except(a, e)]
       IN
       \/ /\ pc[i] = "entry"
          /\ Validate(i, "update_range", "open_by_key")
       \/ /\ pc[i] = "open_by_key"
          /\ GatewayStep(i, "open_by_key", <<a.map["spreadsheet_id"]>>, Then("update"), excs)
       \/ /\ pc[i] = "update"
          /\ GatewayStep(i, "update", <<a.map["range"], a.map["values"]>>,
                         Then("worksheet"), excs)
       \/ /\ pc[i] = "worksheet"
          /\ GatewayStep(i, "worksheet", <<a.map["worksheet_name"]>>,
                         Done(<<"Successfully updated range ">> \o PyStr(a.map["range"])
                              \o <<" in worksheet '">> \o PyStr(a.map["worksheet_name"])
                              \o <<"'">>),
                         excs)

handle_update_range(i) ==
    /\ handler[i] = "handle_update_range"
    /\ LET a == arguments[i]
           excs == [e \in Outcomes |-> update_range_except(a, e)]
       IN
       \/ /\ pc[i] = "entry"
          /\ Validate(i, "update_range", "open_by_key")
       \/ /\ pc[i] = "open_by_key"
          /\ GatewayStep(i, "open_by_key", <<a.map["spreadsheet_id"]>>, Then("worksheet"), excs)
       \/ /\ pc[i] = "worksheet"
          /\ GatewayStep(i, "worksheet", <<a.map["worksheet_name"]>>, Then("update"), excs)
       \/ /\ pc[i] = "update"
          /\ GatewayStep(i, "update", <<a.map["range"], a.map["values"]>>,
                         Done(<<"Successfully updated range ">> \o PyStr(a.map["range"])
                              \o <<" in worksheet '">> \o PyStr(a.map["worksheet_name"])
                              \o <<"'">>),
                         excs)

handle_append_row(i) ==
    /\ handler[i] = "handle_append_row"
    /\ LET a == arguments[i]
           excs == [e \in Outcomes |-> append_row_except(a, e)]
       IN
       \/ /\ pc[i] = "entry"
          /\ Validate(i, "append_row", "open_by_key")
       \/ /\ pc[i] = "open_by_key"
          /\ GatewayStep(i, "open_by_key", <<a.map["spreadsheet_id"]>>, Then("worksheet"), excs)
       \/ /\ pc[i] = "worksheet"
          /\ GatewayStep(i, "worksheet", <<a.map["worksheet_name"]>>, Then("append_row"), excs)
       \/ /\ pc[i] = "append_row"
          /\ GatewayStep(i, "append_row", <<a.map["values"]>>,
                         Done(<<"Successfully appended row to worksheet '">>
                              \o PyStr(a.map["worksheet_name"]) \o <<"'">>),
                         excs)

handle_create_spreadsheet(i) ==
    /\ handler[i] = "handle_create_spreadsheet"
    /\ LET a == arguments[i]
           excs == [e \in Outcomes |-> create_spreadsheet_except(a, e)]
       IN
       \/ /\ pc[i] = "entry"
          /\ Validate(i, "create_spreadsheet", "create")
       \/ /\ pc[i] = "create"
          /\ GatewayStep(i, "create", <<a.map["title"]>>, Done(Json("spreadsheet_info")), excs)

handle_create_worksheet(i) ==
    /\ handler[i] = "handle_create_worksheet"
    /\ LET a == arguments[i]
           excs == [e \in Outcomes |-> create_worksheet_except(a, e)]
       IN
       \/ /\ pc[i] = "entry"
          /\ Validate(i, "create_worksheet", "open_by_key")
       \/ /\ pc[i] = "open_by_key"
          /\ GatewayStep(i, "open_by_key", <<a.map["spreadsheet_id"]>>, Then("add_worksheet"), excs)
       \/ /\ pc[i] = "add_worksheet"
          /\ GatewayStep(i, "add_worksheet", <<a.map["title"], RowsOf(a), ColsOf(a)>>,
                         Done(Json("worksheet_info")), excs)

\* The transport delivers the outcome; nothing of the invocation is kept.
Deliver(i) ==
    /\ pc[i] \in {"returned", "raised"}
    /\ pc' = [pc EXCEPT ![i] = "idle"]
    /\ name' = [name EXCEPT ![i] = ""]
    /\ arguments' = [arguments EXCEPT ![i] = [kind |-> "none", map |-> [f \in Fields |-> Absent]]]
    /\ handler' = [handler EXCEPT ![i] = "none"]
    /\ calls' = [calls EXCEPT ![i] = <<>>]
    /\ result' = [result EXCEPT ![i] = NoResult]
    /\ log' = [log EXCEPT ![i] = <<>>]
    /\ UNCHANGED toolList

Next ==
    \/ list_tools
    \/ \E i \in DOMAIN pc : Receive(i)
    \/ \E i \in DOMAIN pc : call_tool(i)
    \/ \E i \in DOMAIN pc : handle_list_spreadsheets(i)
    \/ \E i \in DOMAIN pc : handle_open_spreadsheet(i)
    \/ \E i \in DOMAIN pc : handle_list_worksheets(i)
    \/ \E i \in DOMAIN pc : handle_read_worksheet(i)
    \/ \E i \in DOMAIN pc : handle_update_cell(i)
    \/ \E i \in DOMAIN pc : handle_update_range(i)
    \/ \E i \in DOMAIN pc : handle_append_row(i)
    \/ \E i \in DOMAIN pc : handle_create_spreadsheet(i)
    \/ \E i \in DOMAIN pc : handle_create_worksheet(i)
    \/ \E i \in DOMAIN pc : Deliver(i)

Spec == Init /\ [][Next]_vars

(* ------------------------------------------------ concurrent invocations *)

\* Two call_tool invocations in hand at once.
ConcurrentInvocations == {1, 2}

InitConcurrent ==
    /\ pc = [i \in ConcurrentInvocations |-> "idle"]
    /\ name = [i \in ConcurrentInvocations |-> ""]
    /\ arguments = [i \in ConcurrentInvocations |->
                       [kind |-> "none", map |-> [f \in Fields |-> Absent]]]
    /\ handler = [i \in ConcurrentInvocations |-> "none"]
    /\ calls = [i \in ConcurrentInvocations |-> <<>>]
    /\ result = [i \in ConcurrentInvocations |-> NoResult]
    /\ log = [i \in ConcurrentInvocations |-> <<>>]
    /\ toolList = <<>>

\* The values concurrent callers supply: two spreadsheets, a title and a URL
\* as identifiers, one value for every other key.
ConcurrentDom(f) ==
    CASE f = "identifier" -> {StrV(<<"My Budget">>), StrV(UrlMarker \o <<"ABC123">>)}
      [] f = "range" -> {StrV(<<"A1:B2">>)}
      [] f = "value" -> {StrV(<<"v">>)}
      [] f = "rows" -> {IntV(5)}
      [] f = "cols" -> {IntV(3)}
      [] OTHER -> Dom(f)

\* The arguments concurrent callers send to tool n: mappings that pass the
\* argument check, "rows" and "cols" given together or not at all.
ConcurrentArgs(n) ==
    {a \in ArgSpace(n) :
        /\ IsDict(a)
        /\ ~Invalid(a, RequiredKeys(Route(n)))
        /\ \A f \in Fields : a.map[f] \in ConcurrentDom(f) \cup {Absent}
        /\ Has(a, "rows") <=> Has(a, "cols")}

\* The transport hands one of the concurrent tool calls to call_tool.
ReceiveConcurrent(i) ==
    /\ pc[i] = "idle"
    /\ \E n \in ToolNames : \E a \in ConcurrentArgs(n) :
        /\ name' = [name EXCEPT ![i] = n]
        /\ arguments' = [arguments EXCEPT ![i] = a]
    /\ pc' = [pc EXCEPT ![i] = "called"]
    /\ UNCHANGED <<handler, calls, result, log, toolList>>

\* The steps of the invocations interleave in any order.
NextConcurrent ==
    \/ \E i \in DOMAIN pc : ReceiveConcurrent(i)
    \/ \E i \in DOMAIN pc : call_tool(i)
    \/ \E i \in DOMAIN pc : handle_list_spreadsheets(i)
    \/ \E i \in DOMAIN pc : handle_open_spreadsheet(i)
    \/ \E i \in DOMAIN pc : handle_list_worksheets(i)
    \/ \E i \in DOMAIN pc : handle_read_worksheet(i)
    \/ \E i \in DOMAIN pc : handle_update_cell(i)
    \/ \E i \in DOMAIN pc : handle_update_range(i)
    \/ \E i \in DOMAIN pc : handle_append_row(i)
    \/ \E i \in DOMAIN pc : handle_create_spreadsheet(i)
    \/ \E i \in DOMAIN pc : handle_create_worksheet(i)
    \/ \E i \in DOMAIN pc : Deliver(i)

SpecConcurrent == InitConcurrent /\ [][NextConcurrent]_vars

(* ----------------------------------------------------------- properties *)

Ended(i) == pc[i] \in {"returned", "raised"}
LastCall(i) == calls[i][Len(calls[i])]
\* The exception that ended the invocation's last Gateway call, if it raised.
RaisedBy(i, type) == calls[i] # <<>> /\ LastCall(i).out.type = type
\* The outcome classes of the dispatcher.
ContractViolation(i) ==
    pc[i] = "raised" /\ result[i].kind = "raised" /\ result[i].exc = "ValueError"
Unrecoverable(i) ==
    pc[i] = "raised" /\ result[i].kind = "raised" /\ result[i].exc = "RuntimeError"
TextEnvelope(i) == pc[i] = "returned" /\ result[i].kind = "envelope"
\* No step of a handler's try block has been reached.
BeforeGateway(i) == calls[i] = <<>> /\ pc[i] \in {"called", "entry", "raised"}

\* The table of section 4.1: tool names in order, with their required fields.
SpecTable ==
    << [name |-> "list_spreadsheets", required |-> {}],
       [name |-> "open_spreadsheet", required |-> {"identifier"}],
       [name |-> "list_worksheets", required |-> {"spreadsheet_id"}],
       [name |-> "read_worksheet", required |-> {"spreadsheet_id", "worksheet_name"}],
       [name |-> "update_cell",
        required |-> {"spreadsheet_id", "worksheet_name", "cell", "value"}],
       [name |-> "update_range",
        required |-> {"spreadsheet_id", "worksheet_name", "range", "values"}],
       [name |-> "append_row", required |-> {"spreadsheet_id", "worksheet_name", "values"}],
       [name |-> "create_spreadsheet", required |-> {"title"}],
       [name |-> "create_worksheet", required |-> {"spreadsheet_id", "title"}] >>

NineTools == {SpecTable[k].name : k \in DOMAIN SpecTable}

\* C1: a call of any of the nine tools whose argument mapping lacks a field
\* of that tool's required list makes no Gateway call at any point of the
\* invocation and ends in a raised ValueError, never in a text envelope.
C1_MissingRequiredField ==
    \A i \in DOMAIN pc : \A k \in DOMAIN Tools :
        ( /\ pc[i] # "idle"
          /\ name[i] = Tools[k].name
          /\ IsDict(arguments[i])
          /\ \E f \in Range(Tools[k].required) : ~Has(arguments[i], f) )
        => /\ BeforeGateway(i)
           /\ pc[i] = "raised" => ContractViolation(i) /\ log[i] = <<>>

\* update_cell called with every required field but "value" has ended.
C1_Witness ==
    \E i \in DOMAIN pc :
        /\ name[i] = "update_cell" /\ pc[i] = "raised"
        /\ IsDict(arguments[i])
        /\ \A f \in {"spreadsheet_id", "worksheet_name", "cell"} : Has(arguments[i], f)
        /\ ~Has(arguments[i], "value")

\* The text "not found" occurs in the envelope.
SaysNotFound(i) == Contains(result[i].text, <<"not found">>)
\* The tools whose arguments name a spreadsheet, and the name they give.
SpreadsheetTools ==
    {"open_spreadsheet", "list_worksheets", "read_worksheet", "update_cell",
     "update_range", "append_row", "create_worksheet"}
RequestedSpreadsheet(i) ==
    IF name[i] = "open_spreadsheet" THEN PyStr(arguments[i].map["identifier"])
    ELSE PyStr(arguments[i].map["spreadsheet_id"])
\* The envelope names the spreadsheet the caller asked for and, when the
\* call that raised was a resolution, the very key that call was given.
NamesSpreadsheet(i) ==
    /\ Contains(result[i].text, RequestedSpreadsheet(i))
    /\ LastCall(i).op \in {"open_by_key", "open"}
        => Contains(result[i].text, PyStr(LastCall(i).args[1]))

\* C2 as stated: for each of the nine tools, a Gateway call that raises
\* SpreadsheetNotFound ends the invocation in a text envelope that says
\* "not found" and names the spreadsheet; it never ends in a raised error.
C2_Original ==
    \A i \in DOMAIN pc :
        (Ended(i) /\ RaisedBy(i, "SpreadsheetNotFound"))
        => /\ TextEnvelope(i)
           /\ SaysNotFound(i)
           /\ name[i] \in SpreadsheetTools => NamesSpreadsheet(i)

\* C2 amended: the seven tools that take a spreadsheet identifier answer
\* SpreadsheetNotFound with a text envelope that says "not found" and names
\* the requested spreadsheet, with nothing logged; list_spreadsheets and
\* create_spreadsheet have no such clause and end in a raised RuntimeError
\* that carries the exception's message, logged once.
C2_SpreadsheetNotFound ==
    \A i \in DOMAIN pc :
        (Ended(i) /\ RaisedBy(i, "SpreadsheetNotFound"))
        => IF name[i] \in SpreadsheetTools
           THEN TextEnvelope(i) /\ SaysNotFound(i) /\ NamesSpreadsheet(i) /\ log[i] = <<>>
           ELSE /\ name[i] \in {"list_spreadsheets", "create_spreadsheet"}
                /\ Unrecoverable(i)
                /\ Contains(result[i].text, LastCall(i).out.msg)
                /\ Len(log[i]) = 1

\* open_spreadsheet was given a URL and the resolution by key raised
\* SpreadsheetNotFound.
C2_Witness ==
    \E i \in DOMAIN pc :
        /\ name[i] = "open_spreadsheet" /\ Ended(i)
        /\ RaisedBy(i, "SpreadsheetNotFound")
        /\ LastCall(i).op = "open_by_key"
        /\ LastCall(i).args = <<StrV(<<"ABC123">>)>>

\* C3 as stated: for each of the nine tools, arguments that are no mapping
\* end the invocation in a raised ValueError and no Gateway call is made.
C3_Original ==
    \A i \in DOMAIN pc :
        (pc[i] # "idle" /\ name[i] \in NineTools /\ ~IsDict(arguments[i]))
        => /\ BeforeGateway(i)
           /\ pc[i] = "raised" => ContractViolation(i)

\* C3 amended: for the eight tools that have required fields, arguments
\* that are no mapping end the invocation in a raised ValueError with no
\* Gateway call; list_spreadsheets never inspects its arguments, so with
\* any arguments at all it goes on to enumerate the spreadsheets, and its
\* invocation ends with exactly that one Gateway call made.
C3_MalformedArguments ==
    \A i \in DOMAIN pc :
        /\ (pc[i] # "idle" /\ name[i] \in NineTools \ {"list_spreadsheets"}
                /\ ~IsDict(arguments[i]))
           => /\ BeforeGateway(i)
              /\ pc[i] = "raised" => ContractViolation(i) /\ log[i] = <<>>
        /\ (Ended(i) /\ name[i] = "list_spreadsheets")
           => /\ Len(calls[i]) = 1
              /\ calls[i][1].op = "list_spreadsheet_files"
              /\ ~ContractViolation(i)

\* read_worksheet was called with arguments that are no mapping and has ended.
C3_Witness ==
    \E i \in DOMAIN pc :
        /\ name[i] = "read_worksheet" /\ Ended(i)
        /\ arguments[i].kind = "list"

\* list_spreadsheets was called with arguments that are no mapping and
\* returned the list.
C3_WitnessList ==
    \E i \in DOMAIN pc :
        /\ name[i] = "list_spreadsheets" /\ TextEnvelope(i)
        /\ arguments[i].kind = "none"

\* The text that follows the first occurrence of the URL marker in s, up to
\* the next "/" or the end of s.
AfterMarker(s) ==
    LET k == Find(s, UrlMarker)
        tail == SubSeq(s, k + Len(UrlMarker), Len(s))
        j == Find(tail, <<"/">>)
    IN IF j = 0 THEN tail ELSE SubSeq(tail, 1, j - 1)

\* C4: open_spreadsheet with an identifier that contains the URL marker
\* resolves by id, with the text after the marker's first occurrence up to
\* the next "/" as the id; with any other identifier it resolves by exact
\* title, the identifier unchanged, and never resolves by id.
C4_ResolutionRule ==
    \A i \in DOMAIN pc :
        (name[i] = "open_spreadsheet" /\ calls[i] # <<>>)
        => LET identifier == arguments[i].map["identifier"] IN
           IF Contains(identifier.s, UrlMarker)
           THEN /\ calls[i][1].op = "open_by_key"
                /\ calls[i][1].args = <<StrV(AfterMarker(identifier.s))>>
           ELSE /\ calls[i][1].op = "open"
                /\ calls[i][1].args = <<identifier>>
                /\ \A k \in DOMAIN calls[i] : calls[i][k].op # "open_by_key"

\* C5: when a Gateway call raises an exception that is neither
\* SpreadsheetNotFound nor WorksheetNotFound, the invocation ends in a raised
\* error whose message contains the exception's message, no envelope is
\* returned, and exactly one log record was emitted in the invocation.
C5_OpaqueFailure ==
    \A i \in DOMAIN pc :
        RaisedBy(i, "Exception")
        => /\ Unrecoverable(i)
           /\ Contains(result[i].text, LastCall(i).out.msg)
           /\ Len(log[i]) = 1
           /\ Contains(log[i][1], LastCall(i).out.msg)

\* The write of update_range raised an opaque exception.
C5_Witness ==
    \E i \in DOMAIN pc :
        /\ name[i] = "update_range" /\ Ended(i)
        /\ RaisedBy(i, "Exception")
        /\ LastCall(i).op = "update"
        /\ LastCall(i).out.msg = <<"quota exceeded">>

\* The Gateway operations that write.
WriteOps == {"update", "append_row"}
\* The tools whose arguments name a worksheet.
WorksheetTools == {"read_worksheet", "update_cell", "update_range", "append_row"}
\* The envelope is the one sentence that names the requested worksheet.
NamesWorksheet(i) ==
    /\ Contains(result[i].text, PyStr(arguments[i].map["worksheet_name"]))
    /\ SaysNotFound(i)
    /\ Head(result[i].text) = "Worksheet '"

\* C6 as stated: whenever a Gateway call of an invocation raises
\* WorksheetNotFound, a text envelope is returned that names the requested
\* worksheet and says it was not found, no error is raised and no write
\* call has been made.
C6_Original ==
    \A i \in DOMAIN pc :
        (Ended(i) /\ RaisedBy(i, "WorksheetNotFound"))
        => /\ TextEnvelope(i)
           /\ NamesWorksheet(i)
           /\ \A k \in DOMAIN calls[i] : calls[i][k].op \notin WriteOps

\* C6 amended: in read_worksheet, update_cell, update_range and append_row
\* a Gateway call that raises WorksheetNotFound ends the invocation in the
\* text envelope that names the requested worksheet and says it was not
\* found, with nothing logged and no error raised, and no write call was
\* made before the call that raised; when the worksheet resolution is the
\* call that raised, no write call was made at all.  The other five tools
\* have no WorksheetNotFound clause: there the exception is logged once and
\* the invocation ends in a raised RuntimeError.
C6_WorksheetNotFound ==
    \A i \in DOMAIN pc :
        (Ended(i) /\ RaisedBy(i, "WorksheetNotFound"))
        => IF name[i] \in WorksheetTools
           THEN /\ TextEnvelope(i)
                /\ NamesWorksheet(i)
                /\ log[i] = <<>>
                /\ \A k \in 1..(Len(calls[i]) - 1) : calls[i][k].op \notin WriteOps
                /\ LastCall(i).op = "worksheet"
                    => \A k \in DOMAIN calls[i] : calls[i][k].op \notin WriteOps
           ELSE /\ Unrecoverable(i)
                /\ Len(log[i]) = 1

\* update_cell resolved the spreadsheet and the worksheet resolution raised
\* WorksheetNotFound.
C6_Witness ==
    \E i \in DOMAIN pc :
        /\ name[i] = "update_cell" /\ Ended(i)
        /\ RaisedBy(i, "WorksheetNotFound")
        /\ LastCall(i).op = "worksheet"
        /\ Len(calls[i]) = 2

\* C7: a call whose tool name is none of the nine ends in a raised
\* ValueError whose message contains that name; it is routed to no handler,
\* returns no envelope and makes no Gateway call, whatever its arguments.
C7_UnknownTool ==
    \A i \in DOMAIN pc :
        (pc[i] # "idle" /\ name[i] \notin NineTools)
        => /\ calls[i] = <<>>
           /\ handler[i] = "none"
           /\ pc[i] \in {"called", "raised"}
           /\ pc[i] = "raised"
               => /\ ContractViolation(i)
                  /\ Contains(result[i].text, <<name[i]>>)
                  /\ log[i] = <<>>

\* An unknown tool name was called with a mapping as arguments and has ended.
C7_Witness ==
    \E i \in DOMAIN pc :
        /\ name[i] = "read_worksheets" /\ pc[i] = "raised"
        /\ IsDict(arguments[i]) /\ Has(arguments[i], "spreadsheet_id")

\* C8: list_tools returns one descriptor per tool of the table of section
\* 4.1, in the table's order on every call, the names pairwise distinct and
\* each required list equal to the table's set; and call_tool routes a name
\* to a handler exactly when list_tools has a descriptor of that name.
C8_RegistryAgreesWithDispatcher ==
    /\ toolList # <<>>
       => /\ Len(toolList) = Len(SpecTable)
          /\ \A k \in DOMAIN toolList :
                /\ toolList[k].name = SpecTable[k].name
                /\ Range(toolList[k].required) = SpecTable[k].required
                /\ Len(toolList[k].required) = Cardinality(SpecTable[k].required)
          /\ \A k, l \in DOMAIN toolList : toolList[k].name = toolList[l].name => k = l
    /\ \A i \in DOMAIN pc :
          pc[i] \notin {"idle", "called"}
          => (handler[i] # "none" <=> \E k \in DOMAIN Tools : Tools[k].name = name[i])
    /\ \A i \in DOMAIN pc : handler[i] # "none" => handler[i] = "handle_" \o name[i]

\* The tool list has been returned and a call of create_worksheet has been
\* routed to its handler.
C8_Witness ==
    /\ toolList # <<>>
    /\ \E i \in DOMAIN pc :
        name[i] = "create_worksheet" /\ handler[i] = "handle_create_worksheet"

\* C9 as stated: read_worksheet invokes the ranged read with exactly the
\* range of the arguments whenever the arguments hold a range entry, the
\* whole-worksheet read only when they hold none, and exactly one of the two
\* reads in an invocation that succeeds.
C9_Original ==
    \A i \in DOMAIN pc :
        name[i] = "read_worksheet"
        => LET a == arguments[i]
               reads == {k \in DOMAIN calls[i] : calls[i][k].op \in {"get", "get_all_values"}}
           IN /\ \A k \in reads :
                    IF Has(a, "range")
                    THEN calls[i][k].op = "get" /\ calls[i][k].args = <<a.map["range"]>>
                    ELSE calls[i][k].op = "get_all_values"
              /\ (TextEnvelope(i) /\ LastCall(i).out.type = "ok") => Cardinality(reads) = 1

\* C9 amended: read_worksheet invokes the ranged read with exactly the range
\* of the arguments whenever that range is a truthy value (a non-empty
\* string), the whole-worksheet read when the range is absent or falsy
\* (None, the empty string), and exactly one of the two reads in an
\* invocation that succeeds.
C9_RangePassedThrough ==
    \A i \in DOMAIN pc :
        name[i] = "read_worksheet"
        => LET a == arguments[i]
               reads == {k \in DOMAIN calls[i] : calls[i][k].op \in {"get", "get_all_values"}}
           IN /\ \A k \in reads :
                    IF Has(a, "range") /\ a.map["range"] \notin {NoneV, StrV(<<>>)}
                    THEN calls[i][k].op = "get" /\ calls[i][k].args = <<a.map["range"]>>
                    ELSE calls[i][k].op = "get_all_values" /\ calls[i][k].args = <<>>
              /\ (TextEnvelope(i) /\ LastCall(i).out.type = "ok") => Cardinality(reads) = 1

\* read_worksheet with range "A1:B2" has returned the values it read.
C9_Witness ==
    \E i \in DOMAIN pc :
        /\ name[i] = "read_worksheet" /\ TextEnvelope(i)
        /\ arguments[i].map["range"] = StrV(<<"A1:B2">>)
        /\ LastCall(i).op = "get" /\ LastCall(i).out.type = "ok"

\* read_worksheet with the empty string as range has read the whole sheet.
C9_WitnessEmpty ==
    \E i \in DOMAIN pc :
        /\ name[i] = "read_worksheet" /\ TextEnvelope(i)
        /\ arguments[i].map["range"] = StrV(<<>>)
        /\ LastCall(i).op = "get_all_values" /\ LastCall(i).out.type = "ok"

\* C10: create_worksheet invokes the Gateway's create-worksheet operation
\* with the title, and with rows and cols as supplied; an absent rows is
\* passed as 100 and an absent cols as 26, each on its own.
C10_CreateWorksheetDefaults ==
    \A i \in DOMAIN pc : \A k \in DOMAIN calls[i] :
        calls[i][k].op = "add_worksheet"
        => LET a == arguments[i] IN
           /\ name[i] = "create_worksheet"
           /\ calls[i][k].args =
                << a.map["title"],
                   IF Has(a, "rows") THEN a.map["rows"] ELSE IntV(100),
                   IF Has(a, "cols") THEN a.map["cols"] ELSE IntV(26) >>

\* create_worksheet was called with cols 0 and no rows, and the worksheet
\* was created with 100 rows and 0 columns.
C10_Witness ==
    \E i \in DOMAIN pc :
        /\ name[i] = "create_worksheet" /\ TextEnvelope(i)
        /\ ~Has(arguments[i], "rows") /\ arguments[i].map["cols"] = IntV(0)
        /\ LastCall(i).op = "add_worksheet"
        /\ LastCall(i).args = <<StrV(<<"T">>), IntV(100), IntV(0)>>

\* create_worksheet was called with neither rows nor cols.
C10_WitnessBoth ==
    \E i \in DOMAIN pc :
        /\ name[i] = "create_worksheet" /\ TextEnvelope(i)
        /\ ~Has(arguments[i], "rows") /\ ~Has(arguments[i], "cols")
        /\ LastCall(i).args = <<StrV(<<"T">>), IntV(100), IntV(26)>>

\* The Gateway operation a client call belongs to.
OpKind(op) ==
    CASE op \in {"open_by_key", "open"} -> "resolve spreadsheet"
      [] op = "worksheet" -> "resolve worksheet"
      [] op \in {"get", "get_all_values"} -> "read"
      [] op = "update" -> "write"
      [] op = "append_row" -> "append"
      [] op \in {"create", "add_worksheet"} -> "create"
      [] op \in {"list_spreadsheet_files", "worksheets"} -> "enumerate"

\* The four ways an invocation ends.
Succeeded(i) ==
    /\ TextEnvelope(i) /\ ~SaysNotFound(i)
    /\ calls[i] # <<>>
    /\ \A k \in DOMAIN calls[i] : calls[i][k].out.type = "ok"
DomainNotFound(i) ==
    /\ TextEnvelope(i) /\ SaysNotFound(i)
    /\ RaisedBy(i, "SpreadsheetNotFound") \/ RaisedBy(i, "WorksheetNotFound")
OpaqueFailure(i) == Unrecoverable(i) /\ Len(log[i]) = 1
EndClasses(i) ==
    {c \in {"Succeeded", "DomainNotFound", "OpaqueFailure", "ContractViolation"} :
        CASE c = "Succeeded" -> Succeeded(i)
          [] c = "DomainNotFound" -> DomainNotFound(i)
          [] c = "OpaqueFailure" -> OpaqueFailure(i)
          [] c = "ContractViolation" -> ContractViolation(i)}

\* C11: within one invocation each Gateway operation is attempted at most
\* once, a Gateway call that raised is the last call of its invocation and
\* ends it, and an invocation that has ended is in exactly one of Succeeded,
\* DomainNotFound, OpaqueFailure and ContractViolation.
C11_NoRetries ==
    \A i \in DOMAIN pc :
        /\ \A k, l \in DOMAIN calls[i] :
              OpKind(calls[i][k].op) = OpKind(calls[i][l].op) => k = l
        /\ \A k \in 1..(Len(calls[i]) - 1) : calls[i][k].out.type = "ok"
        /\ (calls[i] # <<>> /\ LastCall(i).out.type # "ok") => Ended(i)
        /\ Ended(i) => Cardinality(EndClasses(i)) = 1
        /\ ~Ended(i) => EndClasses(i) = {}

\* update_cell resolved the spreadsheet and the worksheet, and its write
\* raised an exception that ended the invocation after three calls.
C11_Witness ==
    \E i \in DOMAIN pc :
        /\ name[i] = "update_cell" /\ Ended(i)
        /\ Len(calls[i]) = 3
        /\ RaisedBy(i, "Exception")
        /\ EndClasses(i) = {"OpaqueFailure"}

\* The three tools that write, and the Gateway calls each makes, in order.
WriteTools == {"update_cell", "update_range", "append_row"}
WriteSequence(n) ==
    <<"open_by_key", "worksheet", IF n = "append_row" THEN "append_row" ELSE "update">>
\* The positions of the write calls of an invocation.
Writes(i) == {k \in DOMAIN calls[i] : calls[i][k].op \in WriteOps}
\* A resolution of the invocation raised.
ResolutionFailed(i) ==
    \E k \in DOMAIN calls[i] :
        calls[i][k].op \in {"open_by_key", "worksheet"} /\ calls[i][k].out.type # "ok"
\* The envelope is the confirmation sentence of a write.
Confirmation(i) ==
    /\ TextEnvelope(i)
    /\ Head(result[i].text) \in
          {"Successfully updated cell ", "Successfully updated range ",
           "Successfully appended row to worksheet '"}
\* The calls are made in the order resolve spreadsheet, resolve worksheet,
\* write; the write at most once and only after both resolutions returned;
\* a confirmation is returned only after the write returned.
WriteOrder(i) ==
    /\ Len(calls[i]) <= 3
    /\ \A k \in DOMAIN calls[i] : calls[i][k].op = WriteSequence(name[i])[k]
    /\ Cardinality(Writes(i)) <= 1
    /\ \A k \in Writes(i) :
          /\ k = 3
          /\ calls[i][1].out.type = "ok" /\ calls[i][1].op = "open_by_key"
          /\ calls[i][2].out.type = "ok" /\ calls[i][2].op = "worksheet"
    /\ Confirmation(i) => \E k \in Writes(i) : calls[i][k].out.type = "ok"
    /\ Succeeded(i) => Confirmation(i)

\* C13 as stated: in update_cell, update_range and append_row the calls are
\* made in the order resolve spreadsheet, resolve worksheet, write, the write
\* at most once and only after both resolutions returned; an invocation that
\* ends in DomainNotFound or in which a resolution failed has issued no
\* write call; a confirmation is returned only after the write returned.
C13_Original ==
    \A i \in DOMAIN pc :
        name[i] \in WriteTools
        => /\ WriteOrder(i)
           /\ (DomainNotFound(i) \/ ResolutionFailed(i)) => Writes(i) = {}

\* C13 amended: the order, the single write after both resolutions and the
\* confirmation only after the write returned hold as stated; an invocation
\* in which a resolution failed has issued no write call; an invocation
\* that ends in DomainNotFound has issued no write call unless the write
\* call itself raised the not-found exception, and no write of it returned.
C13_WriteOrdering ==
    \A i \in DOMAIN pc :
        name[i] \in WriteTools
        => /\ WriteOrder(i)
           /\ ResolutionFailed(i) => Writes(i) = {}
           /\ DomainNotFound(i)
               => /\ \A k \in Writes(i) :
                        /\ k = Len(calls[i])
                        /\ calls[i][k].out.type \in {"SpreadsheetNotFound", "WorksheetNotFound"}
                  /\ LastCall(i).op \notin WriteOps => Writes(i) = {}

\* update_range resolved the spreadsheet and the worksheet, wrote once and
\* returned its confirmation.
C13_Witness ==
    \E i \in DOMAIN pc :
        /\ name[i] = "update_range" /\ Confirmation(i)
        /\ Len(calls[i]) = 3
        /\ LastCall(i).op = "update" /\ LastCall(i).out.type = "ok"
        /\ LastCall(i).args = <<StrV(<<"A1:B2">>), ListV("a, 2, True, None")>>

\* append_row ended in DomainNotFound after the worksheet resolution raised,
\* with no write call issued.
C13_WitnessNoWrite ==
    \E i \in DOMAIN pc :
        /\ name[i] = "append_row" /\ DomainNotFound(i)
        /\ LastCall(i).op = "worksheet" /\ Writes(i) = {}

\* The invocations i and j were given the same tool name and arguments.
SameInput(i, j) ==
    /\ pc[i] # "idle" /\ pc[j] # "idle"
    /\ name[i] = name[j] /\ arguments[i] = arguments[j]
\* The Gateway answered the first k calls of i and of j alike.
SameResponses(i, j, k) ==
    /\ k <= Len(calls[i]) /\ k <= Len(calls[j])
    /\ \A l \in 1..k : calls[i][l].out = calls[j][l].out
\* With the same input, and as long as the Gateway answers alike, i and j
\* issue the same calls, and end alike.
Deterministic(i, j) ==
    /\ \A k \in DOMAIN calls[i] \cap DOMAIN calls[j] :
          SameResponses(i, j, k - 1)
          => /\ calls[i][k].op = calls[j][k].op
             /\ calls[i][k].args = calls[j][k].args
    /\ (Ended(i) /\ SameResponses(i, j, Len(calls[i])))
        => /\ Len(calls[j]) = Len(calls[i])
           /\ Ended(j) => result[j] = result[i] /\ log[j] = log[i]
\* The operations called on the client, on a spreadsheet handle, on a
\* worksheet handle.
ClientOps == {"open_by_key", "open", "list_spreadsheet_files", "create"}
SpreadsheetOps == {"worksheets", "worksheet", "add_worksheet"}
WorksheetOps == {"get", "get_all_values", "update", "append_row"}
\* Every handle an invocation uses was resolved by the invocation itself,
\* from its own arguments, in the call just before.
FromScratch(i) ==
    \A k \in DOMAIN calls[i] :
        LET c == calls[i][k] IN
        /\ c.op \in ClientOps => k = 1
        /\ c.op \in {"open_by_key", "open"}
            => IF name[i] = "open_spreadsheet"
               THEN Contains(RequestedSpreadsheet(i), PyStr(c.args[1]))
               ELSE c.args = <<arguments[i].map["spreadsheet_id"]>>
        /\ c.op \in SpreadsheetOps
            => /\ k = 2
               /\ calls[i][1].op \in {"open_by_key", "open"}
               /\ calls[i][1].out.type = "ok"
        /\ c.op = "worksheet" => c.args = <<arguments[i].map["worksheet_name"]>>
        /\ c.op \in WorksheetOps
            => /\ k = 3
               /\ calls[i][2].op = "worksheet"
               /\ calls[i][2].out.type = "ok"

\* C12: when invocations run concurrently under any interleaving, the
\* Gateway calls each issues and its outcome are a function of its own tool
\* name, its own arguments and the Gateway's responses to its own calls; an
\* invocation uses no handle but those it resolved itself, from its own
\* arguments, in its own preceding calls.
C12_Independent ==
    \A i \in DOMAIN pc :
        /\ FromScratch(i)
        /\ \A j \in DOMAIN pc : (i # j /\ SameInput(i, j)) => Deterministic(i, j)

\* Two update_cell invocations with the same arguments are in flight at
\* once: for one the resolution of the spreadsheet raised SpreadsheetNotFound,
\* the other has resolved the same spreadsheet and its worksheet and is about
\* to write.
C12_Witness ==
    \E i, j \in DOMAIN pc :
        /\ i # j /\ SameInput(i, j) /\ name[i] = "update_cell"
        /\ Ended(i) /\ Len(calls[i]) = 1 /\ RaisedBy(i, "SpreadsheetNotFound")
        /\ pc[j] = "update" /\ Len(calls[j]) = 2
        /\ calls[j][1].args = calls[i][1].args

====
